---- MODULE Spec2Model ----
(***************************************************************************)
(* Customer Churn Prediction dashboard (src/app.py).                       *)
(*                                                                         *)
(* The program is a Streamlit script: every user interaction re-executes   *)
(* the whole script top to bottom against the per-session key/value store  *)
(* st.session_state.  One action of this model is one script run.          *)
(*                                                                         *)
(* Python floats are modelled as fixed-point integers with Scale units per *)
(* 1.0 (so 0.42 is 42 and 60.1 is 6010); quotients that are not exact in   *)
(* that resolution (the revenue view) are kept as exact fractions.         *)
(* Optional values are sequences: None is <<>>, a present value v is <<v>>.*)
(* The three result slots of the store (churn_risk_score, timestamp,       *)
(* compute_latency) are kept in that form, so that each can be compared    *)
(* with None.                                                              *)
(***************************************************************************)
EXTENDS Integers, Sequences, FiniteSets, TLC

VARIABLES
    model_file,       \* model.pkl as it is on disk                 (line 44)
    encoder_file,     \* encoder.pkl as it is on disk               (line 50)
    model,            \* the unpickled predictor, or None           (line 57)
    encoder,          \* the unpickled encoder, or None             (line 57)
    session_state,    \* st.session_state: key -> value
    now,              \* wall clock, in whole seconds
    evaluate_clicked, \* the button's return value in the last run  (line 787)
    sidebar_status,   \* text the sidebar showed in the last run    (645-653)
    primary_box,      \* what the primary result box showed in it   (854-882)
    st_error,         \* TRUE iff the last run surfaced SYSTEM HALT (line 791)
    payload,          \* the vector built in the last run, or <<>>  (line 824)
    raw_pred,         \* the predictor's output in the last run     (line 837)
    exception,        \* uncaught exception that ended the last run, or "none"
    rng,              \* numpy's process-wide generator state
    draw_state,       \* generator state the last run's cohort was drawn from
    last_completed,   \* what the latest run that reached line 849 had computed
    other_session,    \* st.session_state of a second browser session
    shown_metrics     \* the Current Value metrics of the last run, where recorded

vars == <<model_file, encoder_file, model, encoder, session_state, now,
          evaluate_clicked, sidebar_status, primary_box, st_error, payload, raw_pred,
          exception, rng, draw_state, last_completed, other_session,
          shown_metrics>>

----------------------------------------------------------------------------
\* Representation

Scale == 100

None == <<>>
Some(v) == <<v>>
Val(o) == o[1]

Min(a, b) == IF a < b THEN a ELSE b
Max(a, b) == IF a > b THEN a ELSE b

\* Bounds of the exploration
MaxTime == 3

----------------------------------------------------------------------------
\* Static tables

FEATURE_VECTORS ==
    << "Age", "Gender", "Support Calls", "Payment Delay",
       "Subscription Type", "Contract Length", "Total Spend", "Last Interaction" >>

NumericFeatures ==
    {"Age", "Support Calls", "Payment Delay", "Contract Length", "Total Spend",
     "Last Interaction"}

CategoricalFeatures == {"Gender", "Subscription Type"}

GLOBAL_BASELINES ==
    [f \in NumericFeatures |->
        CASE f = "Age" -> 35
          [] f = "Support Calls" -> 2
          [] f = "Payment Delay" -> 5
          [] f = "Contract Length" -> 12
          [] f = "Total Spend" -> 1500
          [] f = "Last Interaction" -> 14]

InputKey(f) == "input_" \o f

\* Slider ranges given at the call sites of render_numeric_block
SliderMin(f) ==
    CASE f = "Age" -> 18
      [] f = "Contract Length" -> 1
      [] OTHER -> 0

SliderMax(f) ==
    CASE f = "Age" -> 90
      [] f = "Contract Length" -> 36
      [] f = "Support Calls" -> 30
      [] f = "Payment Delay" -> 60
      [] f = "Total Spend" -> 20000
      [] f = "Last Interaction" -> 180

SliderStep(f) == IF f = "Total Spend" THEN 100 ELSE 1

\* Options given at the call sites of render_categorical_block
SelectOptions(f) ==
    IF f = "Gender" THEN <<"Female", "Male", "Other">>
    ELSE <<"Basic", "Standard", "Premium">>

----------------------------------------------------------------------------
\* Model artifacts and their loader

\* A pickle file on disk: absent, unreadable, or holding an object.
Missing == <<"missing">>
Corrupt == <<"corrupt">>
Pickled(obj) == <<"ok", obj>>

\* Alphabetical order of the labels, as a LabelEncoder sorts its classes_.
AlphaOrder == <<"Basic", "Female", "Male", "Other", "Premium", "Standard">>

AlphaIndex(label) == CHOOSE i \in 1..Len(AlphaOrder) : AlphaOrder[i] = label

\* The objects encoder.pkl may hold.  A dict of per-column LabelEncoders is
\* [subscriptable |-> TRUE, columns |-> column name -> fitted classes_];
\* a bare LabelEncoder saved on its own is not subscriptable.
FullDictEncoder ==
    [subscriptable |-> TRUE,
     columns |-> ("Gender" :> {"Female", "Male", "Other"})
              @@ ("Subscription Type" :> {"Basic", "Premium", "Standard"})]

PartialDictEncoder ==
    [subscriptable |-> TRUE,
     columns |-> ("Gender" :> {"Male", "Other"})
              @@ ("Subscription Type" :> {"Premium", "Standard"})]

GenderOnlyDictEncoder ==
    [subscriptable |-> TRUE,
     columns |-> ("Gender" :> {"Male", "Other"})]

BareLabelEncoder ==
    [subscriptable |-> FALSE, columns |-> <<>>]

EncoderObjects ==
    {FullDictEncoder, PartialDictEncoder, GenderOnlyDictEncoder, BareLabelEncoder}

ModelFiles == {Missing, Corrupt, Pickled("DecisionTreeRegressor")}

EncoderFiles == {Missing, Corrupt} \cup {Pickled(e) : e \in EncoderObjects}

\* open(path, 'rb') and pickle.load(f): raises unless the file holds an object
Unpickle(file) ==
    [raised |-> file[1] # "ok",
     obj    |-> IF file[1] = "ok" THEN Some(file[2]) ELSE None]

\* try: ... except Exception: pass, around one artifact; the name keeps its
\* initial None when the read raised
LoadPickle(file) == IF Unpickle(file).raised THEN None ELSE Unpickle(file).obj

\* Variant with both reads inside one try block
load_ml_infrastructure_SingleTry(model_pkl, encoder_pkl) ==
    IF Unpickle(model_pkl).raised
    THEN [dt_model |-> None, label_encoder |-> None, raised |-> FALSE]
    ELSE [dt_model |-> Unpickle(model_pkl).obj,
          label_encoder |-> LoadPickle(encoder_pkl),
          raised |-> FALSE]

\* raised tells whether an exception leaves the function
load_ml_infrastructure(model_pkl, encoder_pkl) ==
    [dt_model      |-> LoadPickle(model_pkl),
     label_encoder |-> LoadPickle(encoder_pkl),
     raised        |-> FALSE]

\* What model.predict(payload)[0] may give: a real number (in Scale units),
\* or None when the call raises.
RawOutputs ==
    {-50, 0, 42, 150, 200, 201, 2500, 3000, 5000, 6000, 6010, 7500, 15000}

PredictOutcomes == {None} \cup {Some(r) : r \in RawOutputs}

----------------------------------------------------------------------------
\* Session state initialisation (section 4 of the script)

SessionIds == {"CRM-IDX-0A1B2C3D", "CRM-IDX-4E5F6A7B"}

EmptySession == <<>>

\* Variant without the "not in st.session_state" test
SetDefault_Overwrite(ss, key, value) ==
    IF key \in DOMAIN ss THEN [ss EXCEPT ![key] = value] ELSE ss @@ (key :> value)

\* if key not in st.session_state: st.session_state[key] = value
SetDefault(ss, key, value) == IF key \in DOMAIN ss THEN ss ELSE ss @@ (key :> value)

\* Variant that takes the .get fallback for every numeric feature
FeatureDefault_Zero(feature) ==
    IF feature = "Gender" THEN "Female"
    ELSE IF feature = "Subscription Type" THEN "Standard"
    ELSE 0

FeatureDefault(feature) ==
    IF feature = "Gender" THEN "Female"
    ELSE IF feature = "Subscription Type" THEN "Standard"
    ELSE IF feature \in DOMAIN GLOBAL_BASELINES THEN GLOBAL_BASELINES[feature]
    ELSE 0

RECURSIVE InitFeatures(_, _)
InitFeatures(ss, i) ==
    IF i > Len(FEATURE_VECTORS) THEN ss
    ELSE InitFeatures(
            SetDefault(ss, InputKey(FEATURE_VECTORS[i]), FeatureDefault(FEATURE_VECTORS[i])),
            i + 1)

\* Variant that leaves the latency slot empty like the other two
DefaultLatency_Null == None

\* st.session_state.compute_latency = 0.0
DefaultLatency == Some(0)

InitSession(ss, new_uuid) ==
    LET s1 == SetDefault(ss, "session_id", new_uuid)
        s2 == InitFeatures(s1, 1)
        s3 == SetDefault(s2, "churn_risk_score", None)
        s4 == SetDefault(s3, "timestamp", None)
    IN  SetDefault(s4, "compute_latency", DefaultLatency)

----------------------------------------------------------------------------
\* Sidebar status indicator

SidebarStatus(ss) ==
    IF ss["churn_risk_score"] = None THEN "SYSTEM STANDBY"
    ELSE IF Val(ss["churn_risk_score"]) > 50 * Scale THEN "CRITICAL RISK DETECTED"
    ELSE "RETENTION SECURE"

----------------------------------------------------------------------------
\* Input widgets (tab 1).  A user edit is None (the widget is untouched in
\* this run) or Some(<<feature, value>>).

WidgetReturn(feat_name, current_val, edit) ==
    IF edit # None /\ Val(edit)[1] = feat_name THEN Val(edit)[2] ELSE current_val

\* Variant that drops the stored result when the slider was moved
render_numeric_block_Invalidates(ss, feat_name, edit) ==
    LET current_val == ss[InputKey(feat_name)]
        read == WidgetReturn(feat_name, current_val, edit)
    IN  IF read = current_val THEN ss
        ELSE [ss EXCEPT ![InputKey(feat_name)] = read,
                        !["churn_risk_score"] = None,
                        !["timestamp"] = None]

render_numeric_block(ss, feat_name, edit) ==
    LET current_val == ss[InputKey(feat_name)]
    IN  [ss EXCEPT ![InputKey(feat_name)] = WidgetReturn(feat_name, current_val, edit)]

render_categorical_block(ss, feat_name, edit) ==
    LET current_val == ss[InputKey(feat_name)]
    IN  [ss EXCEPT ![InputKey(feat_name)] = WidgetReturn(feat_name, current_val, edit)]

\* delta_pct with one decimal, in tenths of a percent: the nearest tenth to
\* (current_val - baseline) / baseline * 100
DeltaTenths(current_val, baseline) ==
    (2 * (current_val - baseline) * 1000 + baseline) \div (2 * baseline)

\* delta_str: the format used and the number put in it
DeltaStr(current_val, baseline) ==
    IF baseline > 0 THEN <<"+.1f% vs Avg User", DeltaTenths(current_val, baseline)>>
    ELSE <<"0% vs Avg User", 0>>

\* Variant that computes the delta after the slider was read
numeric_metric_DeltaAfterRead(ss, feat_name, edit) ==
    LET after == render_numeric_block(ss, feat_name, edit)[InputKey(feat_name)]
    IN  [display |-> after, delta |-> DeltaStr(after, GLOBAL_BASELINES[feat_name])]

\* st.metric of one numeric block.  delta_str is computed from current_val,
\* read at line 699 before the slider; display_val is formatted from the
\* store after the slider's return value was assigned (all slider values
\* are whole numbers, which the ,.0f format shows as they are).
numeric_metric(ss, feat_name, edit) ==
    LET current_val == ss[InputKey(feat_name)]
        after == render_numeric_block(ss, feat_name, edit)[InputKey(feat_name)]
    IN  [display |-> after, delta |-> DeltaStr(current_val, GLOBAL_BASELINES[feat_name])]

\* The metrics of the six numeric blocks of one run.  Each block finds its
\* own field as the run found it: the blocks before it assign other keys.
MetricColumn(ss, edit) == [f \in NumericFeatures |-> numeric_metric(ss, f, edit)]

\* The eight blocks in the order the script calls them (col1, then col2).
RenderInputs(ss, edit) ==
    LET a == render_numeric_block(ss, "Age", edit)
        b == render_categorical_block(a, "Gender", edit)
        c == render_categorical_block(b, "Subscription Type", edit)
        d == render_numeric_block(c, "Contract Length", edit)
        e == render_numeric_block(d, "Support Calls", edit)
        f == render_numeric_block(e, "Payment Delay", edit)
        g == render_numeric_block(f, "Total Spend", edit)
    IN  render_numeric_block(g, "Last Interaction", edit)

\* Values a user moves a slider to: on the slider's grid, inside its range.
SliderChoices(f) ==
    {SliderMin(f), GLOBAL_BASELINES[f], SliderMax(f)}
    \cup (IF f = "Contract Length" THEN {11} ELSE {})
    \cup (IF f = "Total Spend" THEN {1200} ELSE {})

SelectChoices(f) == {SelectOptions(f)[i] : i \in 1..Len(SelectOptions(f))}

----------------------------------------------------------------------------
\* Prediction pipeline (the body of "if evaluate_clicked:")

manual_gender == ("Female" :> 0) @@ ("Male" :> 1) @@ ("Other" :> 2)
manual_sub == ("Basic" :> 0) @@ ("Premium" :> 1) @@ ("Standard" :> 2)

\* dict.get(label, 0)
ManualGet(table, label) == IF label \in DOMAIN table THEN table[label] ELSE 0

\* LabelEncoder.transform([label])[0]: the rank of label among the fitted
\* classes_ (sorted), or None when label was not seen in fitting (ValueError).
LabelEncoderTransform(classes, label) ==
    IF label \in classes
    THEN Some(Cardinality({c \in classes : AlphaIndex(c) < AlphaIndex(label)}))
    ELSE None

\* enc[column].transform([label])[0]; None when any step of it raises
\* (TypeError: not subscriptable, KeyError: no such column, ValueError).
EncoderLookup(enc, column, label) ==
    IF ~enc.subscriptable THEN None
    ELSE IF column \notin DOMAIN enc.columns THEN None
    ELSE LabelEncoderTransform(enc.columns[column], label)

\* The body of the try block: the two assignments in order, the first
\* exception leaving it.  raised = TRUE means the block was left by one.
TryEncoder(enc_opt, input_gender, input_sub) ==
    IF enc_opt = None THEN [raised |-> TRUE, gender_val |-> 0, sub_val |-> 0]
    ELSE LET g == EncoderLookup(Val(enc_opt), "Gender", input_gender)
             s == EncoderLookup(Val(enc_opt), "Subscription Type", input_sub)
         IN  IF g = None THEN [raised |-> TRUE, gender_val |-> 0, sub_val |-> 0]
             ELSE IF s = None THEN [raised |-> TRUE, gender_val |-> Val(g), sub_val |-> 0]
             ELSE [raised |-> FALSE, gender_val |-> Val(g), sub_val |-> Val(s)]

\* Variants of the fallback: no except clause; a fallback per field
EncodeCategoricals_NoExcept(enc_opt, input_gender, input_sub) ==
    TryEncoder(enc_opt, input_gender, input_sub)

EncodeCategoricals_PerField(enc_opt, input_gender, input_sub) ==
    LET g == IF enc_opt = None THEN None
             ELSE EncoderLookup(Val(enc_opt), "Gender", input_gender)
        s == IF enc_opt = None THEN None
             ELSE EncoderLookup(Val(enc_opt), "Subscription Type", input_sub)
    IN  [raised |-> FALSE,
         gender_val |-> IF g = None THEN ManualGet(manual_gender, input_gender) ELSE Val(g),
         sub_val |-> IF s = None THEN ManualGet(manual_sub, input_sub) ELSE Val(s)]

\* Variant whose handler keeps a gender code the try block had obtained
EncodeCategoricals_KeepsObtained(enc_opt, input_gender, input_sub) ==
    LET t == TryEncoder(enc_opt, input_gender, input_sub)
        g == IF enc_opt = None THEN None
             ELSE EncoderLookup(Val(enc_opt), "Gender", input_gender)
    IN  IF t.raised
        THEN [raised |-> FALSE,
              gender_val |-> IF g = None THEN ManualGet(manual_gender, input_gender)
                             ELSE Val(g),
              sub_val |-> ManualGet(manual_sub, input_sub)]
        ELSE t

\* try ... except Exception: fall back to the manual tables for both fields.
EncodeCategoricals(enc_opt, input_gender, input_sub) ==
    LET t == TryEncoder(enc_opt, input_gender, input_sub)
    IN  IF t.raised
        THEN [raised |-> FALSE,
              gender_val |-> ManualGet(manual_gender, input_gender),
              sub_val |-> ManualGet(manual_sub, input_sub)]
        ELSE t

\* Variant with two neighbouring elements exchanged
BuildPayload_Swapped(ss, gender_val, sub_val) ==
    << ss["input_Age"],
       gender_val,
       ss["input_Payment Delay"],
       ss["input_Support Calls"],
       sub_val,
       ss["input_Contract Length"],
       ss["input_Total Spend"],
       ss["input_Last Interaction"] >>

BuildPayload(ss, gender_val, sub_val) ==
    << ss["input_Age"],
       gender_val,
       ss["input_Support Calls"],
       ss["input_Payment Delay"],
       sub_val,
       ss["input_Contract Length"],
       ss["input_Total Spend"],
       ss["input_Last Interaction"] >>

\* Variants of the normalisation with one slip each
normalized_risk_NoCap(raw) ==
    LET first == Min(Max(raw, 0), 1 * Scale) * 100
    IN  IF raw > 2 * Scale THEN raw ELSE first

normalized_risk_Threshold1(raw) ==
    LET first == Min(Max(raw, 0), 1 * Scale) * 100
    IN  IF raw > 1 * Scale THEN Min(raw, 100 * Scale) ELSE first

normalized_risk(raw) ==
    LET first == Min(Max(raw, 0), 1 * Scale) * 100
    IN  IF raw > 2 * Scale THEN Min(raw, 100 * Scale) ELSE first

\* time.sleep(1.2), in milliseconds
SleepMs == 1200

\* round(end_time - start_time, 3), in milliseconds: the sleep plus the time
\* the encoding and the predictor took
Latencies == {SleepMs + 1, SleepMs + 4}

\* Variant that stamps the time of the first result only
PersistResult_KeepsTimestamp(ss, risk, ts, latency) ==
    [ss EXCEPT !["churn_risk_score"] = Some(risk),
               !["timestamp"] = IF ss["timestamp"] = None THEN Some(ts) ELSE @,
               !["compute_latency"] = Some(latency)]

\* Variant that adds the new risk to the stored one
PersistResult_Accumulates(ss, risk, ts, latency) ==
    [ss EXCEPT !["churn_risk_score"] =
                   IF @ = None THEN Some(risk) ELSE Some(Min(Val(@) + risk, 100 * Scale)),
               !["timestamp"] = Some(ts),
               !["compute_latency"] = Some(latency)]

PersistResult(ss, risk, ts, latency) ==
    [ss EXCEPT !["churn_risk_score"] = Some(risk),
               !["timestamp"] = Some(ts),
               !["compute_latency"] = Some(latency)]

\* if model is None: refuse the run
Refused_Never(mdl) == FALSE

Refused(mdl) == mdl = None

\* Variant that stamps the time before the predictor is called
InferAndPersist_StampsFirst(ss, outcome, ts, latency) ==
    IF outcome = None THEN [ss EXCEPT !["timestamp"] = Some(ts)]
    ELSE PersistResult(ss, normalized_risk(Val(outcome)), ts, latency)

\* Lines 837-851: the predictor call, the normalisation and the three
\* assignments.  When the call raises (outcome = None) the script ends at
\* line 837 and none of the assignments is reached.
InferAndPersist(ss, outcome, ts, latency) ==
    IF outcome = None THEN ss
    ELSE PersistResult(ss, normalized_risk(Val(outcome)), ts, latency)

\* One evaluation of the pipeline block.  outcome is what model.predict does
\* in this run, ts the clock reading at line 850, latency the measured time.
Pipeline(mdl, enc_opt, ss, clicked, outcome, ts, latency) ==
    LET idle == [ss |-> ss, st_error |-> FALSE, payload |-> <<>>,
                 raw_pred |-> None, exception |-> "none"]
    IN  IF ~clicked THEN idle
        ELSE IF Refused(mdl) THEN [idle EXCEPT !.st_error = TRUE]
        ELSE LET enc == EncodeCategoricals(enc_opt, ss["input_Gender"],
                                           ss["input_Subscription Type"])
                 pl == BuildPayload(ss, enc.gender_val, enc.sub_val)
             IN  IF enc.raised THEN [idle EXCEPT !.exception = "encoding"]
                 ELSE [idle EXCEPT
                         !.ss = InferAndPersist(ss, outcome, ts, latency),
                         !.payload = pl,
                         !.raw_pred = outcome,
                         !.exception = IF outcome = None THEN "predict" ELSE "none"]

----------------------------------------------------------------------------
\* Reporting views: what each place shows for a stored risk

\* Variant with the upper boundary inclusive
PrimaryTitle_Inclusive(risk) ==
    IF risk >= 60 * Scale THEN "HIGH CHURN PROBABILITY DETECTED"
    ELSE IF risk > 30 * Scale THEN "MODERATE ATTRITION RISK"
    ELSE "CUSTOMER RETENTION SECURE"

PrimaryTitle(risk) ==
    IF risk > 60 * Scale THEN "HIGH CHURN PROBABILITY DETECTED"
    ELSE IF risk > 30 * Scale THEN "MODERATE ATTRITION RISK"
    ELSE "CUSTOMER RETENTION SECURE"

\* The primary result box: nothing while no score is stored, else the band
\* title and the percentage
PrimaryBox(ss) ==
    IF ss["churn_risk_score"] = None THEN None
    ELSE Some([title |-> PrimaryTitle(Val(ss["churn_risk_score"])),
               risk  |-> Val(ss["churn_risk_score"])])

\* Variant with the status indicator placed below the pipeline block
StoreAtSidebar_AfterPipeline(initialised, after_pipeline) == after_pipeline

\* The store as it is when the script gets to the sidebar (lines 645-653,
\* above the widgets and the pipeline block) and to the primary result box
\* (line 854, below the pipeline block)
StoreAtSidebar(initialised, after_pipeline) == initialised

StoreAtPrimaryBox(initialised, after_pipeline) == after_pipeline

GaugeColor(risk_score) ==
    IF risk_score >= 50 * Scale THEN "#f43f5e"
    ELSE IF risk_score >= 25 * Scale THEN "#f59e0b"
    ELSE "#10b981"

DossierTextColor(risk) ==
    IF risk >= 50 * Scale THEN "var(--crimson-neon)" ELSE "var(--emerald-neon)"

ExportStatus(risk) == IF risk >= 50 * Scale THEN "High Risk" ELSE "Secure"

\* Exact arithmetic on fractions num / den (den > 0), kept in lowest terms,
\* standing for the float arithmetic of the revenue view.
RECURSIVE GCD(_, _)
GCD(a, b) == IF b = 0 THEN a ELSE GCD(b, a % b)

Abs(x) == IF x < 0 THEN -x ELSE x

Rat(n, d) ==
    LET g == GCD(Abs(n), Abs(d))
    IN  IF d = 0 \/ g = 0 THEN [num |-> n, den |-> d]
        ELSE [num |-> n \div g, den |-> d \div g]

RatMul(x, y) ==
    LET a == Rat(x.num, y.den)
        b == Rat(y.num, x.den)
    IN  Rat(a.num * b.num, a.den * b.den)

RatDiv(x, y) == RatMul(x, [num |-> y.den, den |-> y.num])

RatSub(x, y) == Rat(x.num * y.den - y.num * x.den, x.den * y.den)

RatAdd(x, y) ==
    LET g == GCD(x.den, y.den)
    IN  Rat(x.num * (y.den \div g) + y.num * (x.den \div g), x.den * (y.den \div g))

RatInt(n) == [num |-> n, den |-> 1]

RatLe(x, y) == x.num * y.den <= y.num * x.den

\* min(x, 1.0)
RatMinOne(x) == IF RatLe(x, RatInt(1)) THEN x ELSE RatInt(1)

\* Risk topology (tab 2): the radar chart's axes
max_bounds ==
    [f \in NumericFeatures |->
        CASE f = "Age" -> 80
          [] f = "Support Calls" -> 15
          [] f = "Payment Delay" -> 30
          [] f = "Contract Length" -> 24
          [] f = "Total Spend" -> 10000
          [] f = "Last Interaction" -> 90]

\* The two axes the script inverts (short contract, low spend = high risk)
InvertedAxes == {"Contract Length", "Total Spend"}

\* Variant of an axis without the min(..., 1.0)
radar_axis_Unclamped(feature, value) ==
    IF feature \in InvertedAxes
    THEN RatSub(RatInt(1), Rat(value, max_bounds[feature]))
    ELSE Rat(value, max_bounds[feature])

\* One element of radar_vals for a value of its feature
radar_axis(feature, value) ==
    IF feature \in InvertedAxes
    THEN RatSub(RatInt(1), RatMinOne(Rat(value, max_bounds[feature])))
    ELSE RatMinOne(Rat(value, max_bounds[feature]))

\* The order of the axes in radar_vals
RadarOrder ==
    <<"Age", "Support Calls", "Payment Delay", "Contract Length", "Total Spend",
      "Last Interaction">>

\* radar_vals, with the first element repeated at the end (closed polygon)
radar_vals(ss) ==
    [i \in 1..(Len(RadarOrder) + 1) |->
        LET f == RadarOrder[IF i > Len(RadarOrder) THEN 1 ELSE i]
        IN  radar_axis(f, ss[InputKey(f)])]

\* Revenue simulation (tab 4)
RevenueDivisor_NoPlusOne(contract_length) == contract_length

RevenueDivisor(contract_length) == contract_length + 1

Revenue(ss) ==
    LET risk == RatDiv(Rat(Val(ss["churn_risk_score"]), Scale), RatInt(100))
        ltv == RatInt(ss["input_Total Spend"])
        mrr == RatDiv(ltv, RatInt(RevenueDivisor(ss["input_Contract Length"])))
        annual_revenue == RatMul(mrr, RatInt(12))
    IN  [risk |-> risk,
         mrr |-> mrr,
         annual_revenue |-> annual_revenue,
         revenue_at_risk |-> RatMul(annual_revenue, risk),
         revenue_secured |-> RatMul(annual_revenue, RatSub(RatInt(1), risk))]

----------------------------------------------------------------------------
\* numpy's process-wide generator.  Its state is the seed it was last seeded
\* with and the number of deviates drawn since; the k-th standard normal
\* deviate of a seed's stream is a fixed function of (seed, k), given here
\* in Scale units by a stand-in for the generator's arithmetic.

StreamDeviate(seed, k) == ((seed * 31 + 75 * k * k + 74 * k) % 601) - 300

np_random_seed(state, seed) == [seed |-> seed, pos |-> 0]

\* np.random.normal(loc, scale, size): the samples and the state left behind
NormalSamples(state, loc, scale, size) ==
    [i \in 1..size |-> loc + (scale * StreamDeviate(state.seed, state.pos + i))]

NormalAdvance(state, size) == [state EXCEPT !.pos = @ + size]

\* np.clip(x, 0, 100)
Clip(x, lo, hi) == Min(Max(x, lo), hi)

CohortSize == 100

\* Cohort simulation (tab 5): the generator state the samples are drawn
\* from, given the state the view found.
CohortDrawState_NoSeed(state) == state

CohortDrawState(state) == np_random_seed(state, 42)

simulated_cohort(draw_from, base_risk) ==
    LET samples == NormalSamples(draw_from, base_risk, 7, CohortSize)
    IN  [i \in 1..CohortSize |-> Clip(samples[i], 0, 100 * Scale)]

\* Tab 6, the two downloads.  A document is the function from its leaf
\* names to the values it carries: for the JSON payload the leaves of the
\* nested dict (block.key), for the CSV ledger the columns of its one row.
customer_telemetry(ss) ==
    [t \in {FEATURE_VECTORS[i] : i \in 1..Len(FEATURE_VECTORS)} |-> ss[InputKey(t)]]

json_payload(ss) ==
    LET risk == Val(ss["churn_risk_score"])
        telemetry == customer_telemetry(ss)
    IN  ("metadata.transaction_id" :> ss["session_id"])
     @@ ("metadata.timestamp" :> Val(ss["timestamp"]))
     @@ ("metadata.model_architecture" :> "DecisionTreeRegressor")
     @@ ("metadata.validation_accuracy" :> (930 * Scale) \div 1000)
     @@ ("churn_prediction.risk_score_percentage" :> risk)
     @@ ("churn_prediction.status" :> ExportStatus(risk))
     @@ [leaf \in {"customer_telemetry." \o t : t \in DOMAIN telemetry} |->
            telemetry[CHOOSE t \in DOMAIN telemetry : leaf = "customer_telemetry." \o t]]

\* Variant of the ledger without the Timestamp column
csv_data_NoTimestamp(ss) ==
    customer_telemetry(ss) @@ ("Churn_Risk_Pct" :> Val(ss["churn_risk_score"]))

\* DataFrame([customer_telemetry]).assign(Churn_Risk_Pct=risk, Timestamp=ts)
csv_data(ss) ==
    customer_telemetry(ss)
     @@ ("Churn_Risk_Pct" :> Val(ss["churn_risk_score"]))
     @@ ("Timestamp" :> Val(ss["timestamp"]))

\* Variant of the views in which the dossier rounds the stored latency away
RenderTabs_ResetsLatency(ss) ==
    IF ss["churn_risk_score"] = None THEN ss
    ELSE [ss EXCEPT !["compute_latency"] = DefaultLatency]

\* Tabs 2 to 6 (topology, documentation, revenue, cohort, dossier) as a
\* function on the store: they read st.session_state and assign to none of
\* its keys.
RenderTabs(ss) == ss

\* Variant in which the result slots are kept in a module-level name
ProcessWide_Result(key) ==
    key \in {"churn_risk_score", "timestamp", "compute_latency"}

\* TRUE for a key whose value is shared by all sessions of the process.
\* Every assignment of the script goes to st.session_state, which Streamlit
\* keeps per browser session.
ProcessWide(key) == FALSE

\* What a run that left `written` in its own store does to another store.
Propagate(target, written) ==
    IF target = EmptySession THEN target
    ELSE [k \in DOMAIN target |->
            IF ProcessWide(k) /\ k \in DOMAIN written THEN written[k] ELSE target[k]]

----------------------------------------------------------------------------
\* The state machine: one action is one execution of the script

\* The generator is seeded from OS entropy when the process starts.
EntropySeed == 7

\* What uuid.uuid4() would give if this run called it.
FreshUuid(ss) ==
    IF "session_id" \in DOMAIN ss
    THEN CHOOSE id \in SessionIds : id # ss["session_id"]
    ELSE CHOOSE id \in SessionIds : TRUE

\* What a run that got to line 849 computed: the triple it assigns.
Completed(p, ts, latency, previous) ==
    IF p.raw_pred = None THEN previous
    ELSE Some([risk |-> normalized_risk(Val(p.raw_pred)), ts |-> ts, latency |-> latency])

RunEffects(new_uuid, edit, clicked, outcome, latency) ==
    /\ now < MaxTime
    /\ \E s0 \in {InitSession(session_state, new_uuid)} :
       \E p \in {Pipeline(model, encoder, RenderInputs(s0, edit), clicked, outcome,
                          now + 1, latency)} :
       \* the tabs after the pipeline run unless an exception ended the script
       \E final \in {IF p.exception = "none" THEN RenderTabs(p.ss) ELSE p.ss} :
       \E draws \in {p.exception = "none" /\ p.ss["churn_risk_score"] # None} :
          /\ now' = now + 1
          /\ session_state' = final
          /\ other_session' = Propagate(other_session, final)
          /\ last_completed' = Completed(p, now + 1, latency, last_completed)
          /\ evaluate_clicked' = clicked
          /\ sidebar_status' = SidebarStatus(StoreAtSidebar(s0, p.ss))
          /\ primary_box' = IF p.exception = "none"
                            THEN PrimaryBox(StoreAtPrimaryBox(s0, p.ss))
                            ELSE None
          /\ st_error' = p.st_error
          /\ payload' = p.payload
          /\ raw_pred' = p.raw_pred
          /\ exception' = p.exception
          /\ draw_state' = IF draws THEN Some(CohortDrawState(rng)) ELSE None
          /\ rng' = IF draws THEN NormalAdvance(CohortDrawState(rng), CohortSize) ELSE rng
          /\ UNCHANGED <<model_file, encoder_file, model, encoder>>

\* One script run of the session; what the metrics column showed is not
\* recorded.
ScriptRun(new_uuid, edit, clicked, outcome, latency) ==
    /\ RunEffects(new_uuid, edit, clicked, outcome, latency)
    /\ UNCHANGED shown_metrics

\* The same run with the metrics column recorded.
ObservedRun(new_uuid, edit, clicked, outcome, latency) ==
    /\ RunEffects(new_uuid, edit, clicked, outcome, latency)
    /\ shown_metrics' = MetricColumn(InitSession(session_state, new_uuid), edit)

\* The same script executed for the second browser session.  What that
\* session's screen showed is not recorded.
OtherScriptRun(new_uuid, edit, clicked, outcome, latency) ==
    /\ now < MaxTime
    /\ \E s0 \in {InitSession(other_session, new_uuid)} :
       \E p \in {Pipeline(model, encoder, RenderInputs(s0, edit), clicked, outcome,
                          now + 1, latency)} :
       \E final \in {IF p.exception = "none" THEN RenderTabs(p.ss) ELSE p.ss} :
       \E draws \in {p.exception = "none" /\ p.ss["churn_risk_score"] # None} :
          /\ now' = now + 1
          /\ other_session' = final
          /\ session_state' = Propagate(session_state, final)
          /\ rng' = IF draws THEN NormalAdvance(CohortDrawState(rng), CohortSize) ELSE rng
          /\ UNCHANGED <<model_file, encoder_file, model, encoder, evaluate_clicked,
                         sidebar_status, primary_box, st_error, payload, raw_pred, exception,
                         draw_state, last_completed, shown_metrics>>

\* The process starts: the artifacts are loaded once, no session exists.
Init ==
    /\ model_file \in ModelFiles
    /\ encoder_file \in EncoderFiles
    /\ \E loaded \in {load_ml_infrastructure(model_file, encoder_file)} :
          /\ model = loaded.dt_model
          /\ encoder = loaded.label_encoder
          /\ exception = IF loaded.raised THEN "load" ELSE "none"
    /\ last_completed = None
    /\ other_session = EmptySession
    /\ shown_metrics = <<>>
    /\ session_state = EmptySession
    /\ now = 0
    /\ evaluate_clicked = FALSE
    /\ sidebar_status = "NOT RENDERED"
    /\ primary_box = None
    /\ st_error = FALSE
    /\ payload = <<>>
    /\ raw_pred = None
    /\ rng = [seed |-> EntropySeed, pos |-> 0]
    /\ draw_state = None

\* A new browser session opens the page: no widget was touched.
FirstView ==
    /\ session_state = EmptySession
    /\ ScriptRun(FreshUuid(session_state), None, FALSE, None, SleepMs)

\* The user moves one slider.
EditNumeric ==
    /\ session_state # EmptySession
    /\ \E f \in NumericFeatures :
         \E v \in SliderChoices(f) :
            /\ v # session_state[InputKey(f)]
            /\ ScriptRun(FreshUuid(session_state), Some(<<f, v>>), FALSE, None, SleepMs)

\* The user picks another option of one selectbox.
EditCategorical ==
    /\ session_state # EmptySession
    /\ \E f \in CategoricalFeatures :
         \E v \in SelectChoices(f) :
            /\ v # session_state[InputKey(f)]
            /\ ScriptRun(FreshUuid(session_state), Some(<<f, v>>), FALSE, None, SleepMs)

\* The user presses EXECUTE CHURN PROBABILITY ENGINE.
ClickPredict ==
    /\ session_state # EmptySession
    /\ \E outcome \in PredictOutcomes :
         \E latency \in Latencies :
            ScriptRun(FreshUuid(session_state), None, TRUE, outcome, latency)

Next == FirstView \/ EditNumeric \/ EditCategorical \/ ClickPredict

Spec == Init /\ [][Next]_vars

\* Two browser sessions served by one process.  The second session has the
\* same three interactions; its edits and predictor outputs are drawn from
\* smaller sets.
OtherEdits ==
    {<<"Age", SliderMax("Age")>>, <<"Total Spend", SliderMin("Total Spend")>>,
     <<"Gender", "Male">>, <<"Subscription Type", "Basic">>}

OtherOutcomes == {None, Some(42), Some(7500)}

\* uuid.uuid4() in the second session: another id than the first session's
OtherUuid == CHOOSE id \in SessionIds : id # FreshUuid(EmptySession)

OtherFirstView ==
    /\ other_session = EmptySession
    /\ OtherScriptRun(OtherUuid, None, FALSE, None, SleepMs)

OtherEdit ==
    /\ other_session # EmptySession
    /\ \E e \in OtherEdits :
          /\ e[2] # other_session[InputKey(e[1])]
          /\ OtherScriptRun(FreshUuid(other_session), Some(e), FALSE, None, SleepMs)

OtherClickPredict ==
    /\ other_session # EmptySession
    /\ \E outcome \in OtherOutcomes :
         \E latency \in Latencies :
            OtherScriptRun(FreshUuid(other_session), None, TRUE, outcome, latency)

NextTwoSessions ==
    \/ FirstView \/ EditNumeric \/ EditCategorical \/ ClickPredict
    \/ OtherFirstView \/ OtherEdit \/ OtherClickPredict

TwoSessions == Init /\ [][NextTwoSessions]_vars

\* One session with the metrics column of the input form recorded.  The
\* interactions are the same four; the predictor's outputs are drawn from
\* the smaller set.
ObservedFirstView ==
    /\ session_state = EmptySession
    /\ ObservedRun(FreshUuid(session_state), None, FALSE, None, SleepMs)

ObservedEditNumeric ==
    /\ session_state # EmptySession
    /\ \E f \in NumericFeatures :
         \E v \in SliderChoices(f) :
            /\ v # session_state[InputKey(f)]
            /\ ObservedRun(FreshUuid(session_state), Some(<<f, v>>), FALSE, None, SleepMs)

ObservedEditCategorical ==
    /\ session_state # EmptySession
    /\ \E f \in CategoricalFeatures :
         \E v \in SelectChoices(f) :
            /\ v # session_state[InputKey(f)]
            /\ ObservedRun(FreshUuid(session_state), Some(<<f, v>>), FALSE, None, SleepMs)

ObservedClickPredict ==
    /\ session_state # EmptySession
    /\ \E outcome \in OtherOutcomes :
         \E latency \in Latencies :
            ObservedRun(FreshUuid(session_state), None, TRUE, outcome, latency)

NextInputForm ==
    ObservedFirstView \/ ObservedEditNumeric \/ ObservedEditCategorical
    \/ ObservedClickPredict

InputForm == Init /\ [][NextInputForm]_vars

----------------------------------------------------------------------------
\* Properties

Started == session_state # EmptySession

HasScore == Started /\ session_state["churn_risk_score"] # None

Score == Val(session_state["churn_risk_score"])

PredictionResult(ss) ==
    <<ss["churn_risk_score"], ss["timestamp"], ss["compute_latency"]>>

Ran == payload # <<>>

\* C1: with the predictor absent, a triggered run leaves the Prediction
\* Result (risk score, timestamp, latency) exactly as it was, and a session
\* whose predictor is absent never holds a risk score.
C1_RefusedRunStoresNothing ==
    /\ [](model = None /\ Started => session_state["churn_risk_score"] = None)
    /\ [][(model = None /\ Started /\ evaluate_clicked')
            => PredictionResult(session_state') = PredictionResult(session_state)]_vars

C1_Witness == model = None /\ evaluate_clicked /\ st_error

\* C2: whatever the predictor returns (negative, zero, within (0,1], within
\* (1,2], above 2, above 100), the normalised risk lies in [0,100]; so a
\* stored risk score is always within [0,100].
C2_RiskWithinPercentRange ==
    /\ \A r \in RawOutputs :
          normalized_risk(r) >= 0 /\ normalized_risk(r) <= 100 * Scale
    /\ HasScore => (Score >= 0 /\ Score <= 100 * Scale)

C2_Witness == raw_pred = Some(150 * Scale) /\ HasScore /\ Score = 100 * Scale

\* C3: the stored risk is the two-branch function of the raw output r:
\* min(r, 100) when r > 2.0, otherwise 100 times r clamped into [0,1];
\* 0.42 gives 42.0, 75.0 gives 75.0 and 1.5 gives 100.0.
TwoBranchReference(r) ==
    IF r > 2 * Scale
    THEN (IF r < 100 * Scale THEN r ELSE 100 * Scale)
    ELSE (IF r < 0 THEN 0 ELSE IF r > Scale THEN 100 * Scale ELSE 100 * r)

C3_NormalisationIsTwoBranch ==
    raw_pred # None =>
        /\ session_state["churn_risk_score"] = Some(TwoBranchReference(Val(raw_pred)))
        /\ (Val(raw_pred) = 42 => Score = 42 * Scale)
        /\ (Val(raw_pred) = 75 * Scale => Score = 75 * Scale)
        /\ (Val(raw_pred) = 150 => Score = 100 * Scale)

C3_Witness == raw_pred = Some(150) /\ HasScore /\ Score = 100 * Scale

\* C4: for every record and every state of the encoder (absent, working,
\* failing or malformed), the encoding step of a prediction run does not
\* raise and gives an integer code for gender and for subscription tier.
C4_EncodingNeverRaises ==
    /\ exception # "encoding"
    /\ (evaluate_clicked /\ model # None) => Ran
    /\ Ran => (payload[2] \in Nat /\ payload[5] \in Nat)

C4_Witness ==
    /\ encoder = Some(BareLabelEncoder)
    /\ Ran
    /\ session_state["input_Gender"] = "Other"

\* What a lookup of one field through the loaded encoder gives, taken alone
FieldLookup(column, label) ==
    IF encoder = None THEN None ELSE EncoderLookup(Val(encoder), column, label)

GenderLookup == FieldLookup("Gender", session_state["input_Gender"])

SubLookup == FieldLookup("Subscription Type", session_state["input_Subscription Type"])

ManualGenderCode == manual_gender[session_state["input_Gender"]]

ManualSubCode == manual_sub[session_state["input_Subscription Type"]]

\* C5 as stated: each categorical field is decided separately; a field gets
\* the encoder's code whenever the lookup for that field succeeds, and the
\* manual-table code only when the encoder is absent or that lookup fails.
C5_Original_PerFieldFallback ==
    Ran =>
        /\ payload[2] = (IF GenderLookup # None THEN Val(GenderLookup) ELSE ManualGenderCode)
        /\ payload[5] = (IF SubLookup # None THEN Val(SubLookup) ELSE ManualSubCode)

\* C5 amended: the two fields are decided together; both get the encoder's
\* codes when the encoder is present and the lookups of both fields succeed,
\* and otherwise both get their manual-table codes.
C5_JointFallback ==
    Ran =>
        IF GenderLookup # None /\ SubLookup # None
        THEN payload[2] = Val(GenderLookup) /\ payload[5] = Val(SubLookup)
        ELSE payload[2] = ManualGenderCode /\ payload[5] = ManualSubCode

C5_Witness ==
    /\ Ran
    /\ GenderLookup # None
    /\ SubLookup = None
    /\ Val(GenderLookup) # ManualGenderCode
    /\ payload[2] = ManualGenderCode

\* C6: the vector handed to the predictor has exactly 8 elements, in the
\* order age, gender code, support calls, payment delay, subscription code,
\* contract length, total spend, last interaction, each taken from the
\* current record, on the encoder path and on the fallback path alike.
C6_PayloadCanonicalOrder ==
    Ran =>
        /\ Len(payload) = 8
        /\ Len(payload) = Len(FEATURE_VECTORS)
        /\ \A i \in 1..Len(FEATURE_VECTORS) :
              FEATURE_VECTORS[i] \in NumericFeatures
                  => payload[i] = session_state[InputKey(FEATURE_VECTORS[i])]
        /\ payload[1] = session_state["input_Age"]
        /\ payload[3] = session_state["input_Support Calls"]
        /\ payload[4] = session_state["input_Payment Delay"]
        /\ payload[6] = session_state["input_Contract Length"]
        /\ payload[7] = session_state["input_Total Spend"]
        /\ payload[8] = session_state["input_Last Interaction"]
        /\ FEATURE_VECTORS[2] = "Gender"
        /\ payload[2] \in {ManualGenderCode} \cup {Val(l) : l \in {GenderLookup} \ {None}}
        /\ FEATURE_VECTORS[5] = "Subscription Type"
        /\ payload[5] \in {ManualSubCode} \cup {Val(l) : l \in {SubLookup} \ {None}}

C6_Witness ==
    /\ Ran
    /\ GenderLookup # None /\ SubLookup # None
    /\ session_state["input_Payment Delay"] = 60
    /\ payload[4] = 60

\* C7: the primary result box classifies a stored risk as high when
\* risk > 60, moderate when 30 < risk <= 60 and secure when risk <= 30;
\* 60.0 is moderate, 60.1 is high, 30.0 is secure; each risk in [0,100]
\* falls in exactly one band.
C7_PrimaryBands ==
    HasScore =>
        LET title == PrimaryTitle(Score)
            high == title = "HIGH CHURN PROBABILITY DETECTED"
            moderate == title = "MODERATE ATTRITION RISK"
            secure == title = "CUSTOMER RETENTION SECURE"
        IN  /\ high <=> Score > 60 * Scale
            /\ moderate <=> (Score > 30 * Scale /\ Score <= 60 * Scale)
            /\ secure <=> Score <= 30 * Scale
            /\ Cardinality({b \in {"high", "moderate", "secure"} :
                    \/ b = "high" /\ high
                    \/ b = "moderate" /\ moderate
                    \/ b = "secure" /\ secure}) = 1
            /\ (Score = 60 * Scale => moderate)
            /\ (Score = 60 * Scale + (Scale \div 10) => high)
            /\ (Score = 30 * Scale => secure)

C7_Witness == HasScore /\ Score = 60 * Scale /\ raw_pred = Some(60 * Scale)

\* The labels each place gives a risk value
HighLabels(risk, ss) ==
    {place \in {"primary", "sidebar", "gauge", "dossier", "export"} :
        \/ place = "primary" /\ PrimaryTitle(risk) = "HIGH CHURN PROBABILITY DETECTED"
        \/ place = "sidebar" /\ SidebarStatus(ss) = "CRITICAL RISK DETECTED"
        \/ place = "gauge" /\ GaugeColor(risk) = "#f43f5e"
        \/ place = "dossier" /\ DossierTextColor(risk) = "var(--crimson-neon)"
        \/ place = "export" /\ ExportStatus(risk) = "High Risk"}

SecureLabels(risk, ss) ==
    {place \in {"primary", "sidebar", "gauge", "dossier", "export"} :
        \/ place = "primary" /\ PrimaryTitle(risk) = "CUSTOMER RETENTION SECURE"
        \/ place = "sidebar" /\ SidebarStatus(ss) = "RETENTION SECURE"
        \/ place = "gauge" /\ GaugeColor(risk) = "#10b981"
        \/ place = "dossier" /\ DossierTextColor(risk) = "var(--emerald-neon)"
        \/ place = "export" /\ ExportStatus(risk) = "Secure"}

\* C8 as stated: every place that labels the stored risk (primary box,
\* sidebar indicator, gauge colour, dossier colour, export status) splits
\* the risk values at the same thresholds, so no stored risk is labelled
\* high or critical in one place while labelled secure in another.
C8_Original_NoContradictoryLabels ==
    HasScore => (HighLabels(Score, session_state) = {} \/ SecureLabels(Score, session_state) = {})

\* C9: the revenue view computes monthly = total spend / (contract length
\* + 1), annual = 12 x monthly, at-risk = annual x risk/100 and secured =
\* annual x (1 - risk/100); spend 1200, contract 11, risk 25 gives 100,
\* 1200, 900 and 300; the divisor is never zero and at-risk plus secured
\* is the annual figure.
RevenueExample ==
    Revenue(("input_Total Spend" :> 1200) @@ ("input_Contract Length" :> 11)
            @@ ("churn_risk_score" :> Some(25 * Scale)))

C9_RevenueSplit ==
    /\ RevenueExample.mrr = RatInt(100)
    /\ RevenueExample.annual_revenue = RatInt(1200)
    /\ RevenueExample.revenue_secured = RatInt(900)
    /\ RevenueExample.revenue_at_risk = RatInt(300)
    /\ HasScore =>
        \E v \in {Revenue(session_state)} :
          LET spend == session_state["input_Total Spend"]
              contract == session_state["input_Contract Length"]
          IN  /\ contract + 1 # 0
              /\ v.mrr.den # 0
              /\ v.mrr.num * (contract + 1) = spend * v.mrr.den
              /\ v.annual_revenue = RatMul(RatInt(12), v.mrr)
              /\ v.risk.num * 100 * Scale = Score * v.risk.den
              /\ v.revenue_at_risk = RatMul(v.annual_revenue, v.risk)
              /\ v.revenue_secured = RatSub(v.annual_revenue, v.revenue_at_risk)
              /\ RatAdd(v.revenue_at_risk, v.revenue_secured) = v.annual_revenue

C9_Witness ==
    /\ HasScore
    /\ Score = 25 * Scale
    /\ session_state["input_Contract Length"] = 11
    /\ Revenue(session_state).mrr = RatInt(125)

\* C10: the cohort view is deterministic: every render with the same
\* stored risk score, whatever the generator was left at by earlier
\* renders or at process start, shows the same sequence of 100 samples,
\* each within [0,100].
SeededCohort(base_risk) ==
    simulated_cohort([seed |-> 42, pos |-> 0], base_risk)

----------------------------------------------------------------------------
\* Properties of the store, the loader, the sessions and the exports

AllFeatures == {FEATURE_VECTORS[i] : i \in 1..Len(FEATURE_VECTORS)}

InputKeys == {InputKey(f) : f \in AllFeatures}

ResultKeys == {"churn_risk_score", "timestamp", "compute_latency"}

\* The keys on which two stores over the same keys differ
Changed(before, after) == {k \in DOMAIN before : after[k] # before[k]}

\* The Prediction Result a completed run assigns
TripleOf(completed) ==
    <<Some(Val(completed).risk), Some(Val(completed).ts), Some(Val(completed).latency)>>

\* C11: rendering the reporting views writes nothing to the store.  After
\* every script run the store is exactly what the steps before the views
\* left: the defaults on a first view; otherwise the same keys, the same
\* session id, at most the one edited input changed in a run without a
\* click, and in a run with a click nothing changed except a Prediction
\* Result equal to the triple the pipeline computed in that run.
C11_ViewsWriteNothing ==
    [][/\ (~Started /\ Started')
            => session_state' = InitSession(EmptySession, session_state'["session_id"])
       /\ Started
            => \E ch \in {Changed(session_state, session_state')} :
                 /\ DOMAIN session_state' = DOMAIN session_state
                 /\ IF evaluate_clicked'
                    THEN /\ ch \subseteq ResultKeys
                         /\ ch # {} => /\ raw_pred' # None
                                       /\ PredictionResult(session_state')
                                            = TripleOf(last_completed')
                    ELSE /\ ch \subseteq InputKeys
                         /\ Cardinality(ch) <= 1]_vars

\* The views rendered a stored result in a run that followed an edit.
C11_Witness ==
    /\ HasScore
    /\ draw_state # None
    /\ ~evaluate_clicked
    /\ session_state["input_Age"] # GLOBAL_BASELINES["Age"]

\* C12: in every reachable state of a session each numeric field lies in
\* the range of its slider (Age 18..90, Contract Length 1..36, Support Calls
\* 0..30, Payment Delay 0..60, Total Spend 0..20000, Last Interaction
\* 0..180) and each categorical field is one of its listed options.
C12_FieldsWithinWidgetRanges ==
    Started =>
        /\ session_state["input_Age"] \in 18..90
        /\ session_state["input_Contract Length"] \in 1..36
        /\ session_state["input_Support Calls"] \in 0..30
        /\ session_state["input_Payment Delay"] \in 0..60
        /\ session_state["input_Total Spend"] \in 0..20000
        /\ session_state["input_Last Interaction"] \in 0..180
        /\ session_state["input_Gender"] \in {"Female", "Male", "Other"}
        /\ session_state["input_Subscription Type"] \in {"Basic", "Standard", "Premium"}

\* Two sliders were moved to an end of their range.
C12_Witness ==
    /\ Started
    /\ session_state["input_Age"] = 90
    /\ session_state["input_Contract Length"] = 1

\* C13 as stated: before the first completed prediction run the risk score,
\* the timestamp and the latency are all null.
C13_Original_AllNull ==
    (Started /\ last_completed = None)
        => PredictionResult(session_state) = <<None, None, None>>

\* C13: before the first completed prediction run the risk score and the
\* timestamp are null and the latency is 0.0, whatever edits and refused or
\* failed runs have happened.
C13_AbsentBeforeFirstRun ==
    (Started /\ last_completed = None)
        => PredictionResult(session_state) = <<None, None, Some(0)>>

\* An edit and a refused run have happened and no run has completed.
C13_Witness ==
    /\ Started
    /\ last_completed = None
    /\ evaluate_clicked
    /\ st_error
    /\ session_state["input_Gender"] # "Female"

\* C14: once a prediction run has completed, the store holds exactly the
\* Prediction Result of the most recent completed run: its score, its
\* timestamp and its latency, and nothing of an earlier run.
C14_LatestResultOnly ==
    last_completed # None
        => /\ Started
           /\ PredictionResult(session_state) = TripleOf(last_completed)

\* A second run has completed over a stored result of another band: the
\* sidebar, drawn before the pipeline, still showed the earlier one.
C14_Witness ==
    /\ evaluate_clicked
    /\ raw_pred # None
    /\ sidebar_status = "CRITICAL RISK DETECTED"
    /\ Score < 50 * Scale

\* C15: the loader returns without raising for every state of the two
\* files, and each artifact depends on its own file only: it is the pickled
\* object when that file can be read and None when it cannot, whatever
\* happened to the other file.
C15_LoaderAbsorbsFailures ==
    /\ exception # "load"
    /\ model = (IF model_file[1] = "ok" THEN Some(model_file[2]) ELSE None)
    /\ encoder = (IF encoder_file[1] = "ok" THEN Some(encoder_file[2]) ELSE None)

\* The predictor file is unreadable, the encoder file is fine, and the
\* dashboard is being served.
C15_Witness ==
    /\ Started
    /\ model_file = Corrupt
    /\ model = None
    /\ encoder_file = Pickled(FullDictEncoder)
    /\ encoder = Some(FullDictEncoder)

\* A completed run directly followed by a second run on the same inputs in
\* which the predictor returns the same value
RepeatedRun ==
    /\ evaluate_clicked
    /\ raw_pred # None
    /\ evaluate_clicked'
    /\ raw_pred' = raw_pred
    /\ payload' = payload

\* C16 as stated: running prediction twice in succession leaves the store
\* in the same state as running it once.
C16_Original_SecondRunSameStore ==
    [][RepeatedRun => session_state' = session_state]_vars

\* C16: a second run on unchanged inputs and artifacts stores the same risk
\* score and leaves the inputs and the session id alone, but it overwrites
\* the timestamp with a later one (and the latency with the newly measured
\* one), so the store differs from the store after one run.
C16_SecondRunSameScoreNewStamp ==
    [][RepeatedRun
        => /\ session_state'["churn_risk_score"] = session_state["churn_risk_score"]
           /\ Changed(session_state, session_state') \subseteq {"timestamp", "compute_latency"}
           /\ Val(session_state'["timestamp"]) > Val(session_state["timestamp"])
           /\ session_state'["compute_latency"] \in {Some(l) : l \in Latencies}]_vars

\* The third run of a session completed over an existing result.
C16_Witness ==
    /\ now = 3
    /\ evaluate_clicked
    /\ raw_pred = Some(42)
    /\ sidebar_status = "RETENTION SECURE"
    /\ session_state["timestamp"] = Some(3)

\* C17: no partial result.  The risk score and the timestamp are both null
\* or both the values assigned by one and the same completed run, and a
\* triggered run that stops before completion (refused, or the predictor or
\* the encoding raising) writes none of score, timestamp and latency.
C17_NoPartialResult ==
    /\ [](Started =>
            /\ session_state["churn_risk_score"] = None <=> session_state["timestamp"] = None
            /\ session_state["churn_risk_score"] # None
                 => /\ last_completed # None
                    /\ Score = Val(last_completed).risk
                    /\ Val(session_state["timestamp"]) = Val(last_completed).ts)
    /\ [][(Started /\ evaluate_clicked' /\ raw_pred' = None)
            => PredictionResult(session_state') = PredictionResult(session_state)]_vars

\* The predictor raised in a run that followed a completed one.
C17_Witness ==
    /\ HasScore
    /\ evaluate_clicked
    /\ exception = "predict"

JsonLeafOf(column) ==
    IF column = "Churn_Risk_Pct" THEN "churn_prediction.risk_score_percentage"
    ELSE IF column = "Timestamp" THEN "metadata.timestamp"
    ELSE "customer_telemetry." \o column

\* C19 as stated: the two exports of one render carry the same content,
\* every value of one being present in the other (here: the CSV columns
\* and the JSON leaves correspond one to one, with equal values).
C19_Original_SameContent ==
    HasScore =>
        \E csv \in {csv_data(session_state)} :
        \E json \in {json_payload(session_state)} :
            /\ {JsonLeafOf(column) : column \in DOMAIN csv} = DOMAIN json
            /\ \A column \in DOMAIN csv : json[JsonLeafOf(column)] = csv[column]

\* C19: the CSV ledger is one row of the eight feature values, the risk
\* percentage and the timestamp; each of these values is in the JSON payload
\* under its leaf; the JSON payload carries four more values that the CSV
\* lacks: transaction id, model architecture, validation accuracy, status.
C19_CsvContainedInJson ==
    HasScore =>
        \E csv \in {csv_data(session_state)} :
        \E json \in {json_payload(session_state)} :
            /\ DOMAIN csv = AllFeatures \cup {"Churn_Risk_Pct", "Timestamp"}
            /\ \A column \in DOMAIN csv :
                  /\ JsonLeafOf(column) \in DOMAIN json
                  /\ json[JsonLeafOf(column)] = csv[column]
            /\ DOMAIN json \ {JsonLeafOf(column) : column \in DOMAIN csv}
                 = {"metadata.transaction_id", "metadata.model_architecture",
                    "metadata.validation_accuracy", "churn_prediction.status"}

\* The dossier was rendered for a high-risk result of an edited record.
C19_Witness ==
    /\ HasScore
    /\ exception = "none"
    /\ Score >= 50 * Scale
    /\ session_state["input_Gender"] = "Male"

----------------------------------------------------------------------------
\* Properties of the initialisation step, the input form and the order of
\* evaluation within one run

\* C21: defaults are assigned on the first view only.  On any store of a
\* running session the initialisation step is the identity, even though it
\* is handed a new uuid; over every later run the session id stays the
\* same, a stored score and timestamp are never reset to null, and a run
\* without an edit (a click) leaves every input field as it was.
C21_DefaultsOnlyOnFirstView ==
    /\ [](Started => InitSession(session_state, FreshUuid(session_state)) = session_state)
    /\ [][Started
            => /\ session_state'["session_id"] = session_state["session_id"]
               /\ session_state["churn_risk_score"] # None
                    => /\ session_state'["churn_risk_score"] # None
                       /\ session_state'["timestamp"] # None
               /\ evaluate_clicked'
                    => \A k \in InputKeys : session_state'[k] = session_state[k]]_vars

\* A run was executed over a store holding a user edit, and it left the
\* edit and stored a result.
C21_Witness ==
    /\ HasScore
    /\ evaluate_clicked
    /\ session_state["input_Age"] = 90
    /\ session_state["session_id"] = FreshUuid(EmptySession)

\* min(value / bound, 1) written without the division: min(value, bound) / bound
CappedShare(f, value) == Rat(Min(value, max_bounds[f]), max_bounds[f])

\* C22: whenever the topology view is drawn, each of its six values lies in
\* [0,1]; age, support calls, payment delay and last interaction are
\* min(value/bound, 1), contract length and total spend are
\* 1 - min(value/bound, 1); and for these two a lower value of the field
\* never gives a lower topology value.
C22_TopologyWithinUnitInterval ==
    HasScore =>
        \E rv \in {radar_vals(session_state)} :
            /\ Len(rv) = 7 /\ rv[7] = rv[1]
            /\ \A i \in 1..6 :
                 \E f \in {RadarOrder[i]} :
                 \E v \in {session_state[InputKey(f)]} :
                    /\ RatLe(RatInt(0), rv[i]) /\ RatLe(rv[i], RatInt(1))
                    /\ IF f \in {"Contract Length", "Total Spend"}
                       THEN /\ rv[i] = RatSub(RatInt(1), CappedShare(f, v))
                            /\ \A w \in SliderChoices(f) :
                                  w <= v => RatLe(rv[i], radar_axis(f, w))
                       ELSE rv[i] = CappedShare(f, v)

\* The view was drawn for a record whose spend is beyond the bound of its
\* axis and whose contract length is half of its bound.
C22_Witness ==
    /\ HasScore
    /\ draw_state # None
    /\ session_state["input_Total Spend"] = 20000
    /\ radar_vals(session_state)[5] = RatInt(0)
    /\ radar_vals(session_state)[4] = Rat(1, 2)

\* A run of a running session in which the button was not pressed: with the
\* interactions there are, the run that processes an edit
EditRun == Started /\ ~evaluate_clicked' /\ now' # now

\* Position of a feature in the vector handed to the predictor
FeatureIndex(f) == CHOOSE i \in 1..Len(FEATURE_VECTORS) : FEATURE_VECTORS[i] = f

\* C23: an edit changes exactly the edited input field and leaves the risk
\* score, the timestamp and the latency as they were.  So in the run of an
\* edit that directly follows a completed prediction, the stored score is
\* still the one computed from the earlier vector, which the new record no
\* longer matches, and the revenue view and the JSON dossier pair that
\* score with the new input values.
C23_EditChangesOnlyItsField ==
    [][/\ EditRun
            => \E ch \in {Changed(session_state, session_state')} :
                 /\ Cardinality(ch) = 1
                 /\ ch \subseteq InputKeys
                 /\ PredictionResult(session_state') = PredictionResult(session_state)
       /\ (EditRun /\ evaluate_clicked /\ raw_pred # None)
            => \E old \in {normalized_risk(Val(raw_pred))} :
               \E rev \in {Revenue(session_state')} :
               \E json \in {json_payload(session_state')} :
                 /\ session_state'["churn_risk_score"] = Some(old)
                 /\ \E f \in AllFeatures :
                      /\ session_state'[InputKey(f)] # session_state[InputKey(f)]
                      /\ f \in NumericFeatures
                           => /\ payload[FeatureIndex(f)] = session_state[InputKey(f)]
                              /\ payload[FeatureIndex(f)] # session_state'[InputKey(f)]
                      /\ json["customer_telemetry." \o f] = session_state'[InputKey(f)]
                 /\ json["churn_prediction.risk_score_percentage"] = old
                 /\ rev.risk = Rat(old, 100 * Scale)
                 /\ rev.mrr = Rat(session_state'["input_Total Spend"],
                                  session_state'["input_Contract Length"] + 1)]_vars

\* The spend was edited in the run after a prediction: the result of the
\* second run is still stored at the third.
C23_Witness ==
    /\ now = 3
    /\ ~evaluate_clicked
    /\ HasScore
    /\ session_state["timestamp"] = Some(2)
    /\ session_state["input_Total Spend"] = 1200

\* C24: in the run in which a prediction completes, the sidebar status is
\* the status of the result that was stored before that run (standby when
\* there was none, critical above 50, secure otherwise), while the primary
\* result box shows the band and the percentage of the new result and the
\* tabs are rendered over the store that holds it.
C24_SidebarBeforePipeline ==
    [][(evaluate_clicked' /\ raw_pred' # None)
        => \E new \in {normalized_risk(Val(raw_pred'))} :
             /\ sidebar_status' =
                  (IF session_state["churn_risk_score"] = None THEN "SYSTEM STANDBY"
                   ELSE IF Score > 50 * Scale THEN "CRITICAL RISK DETECTED"
                   ELSE "RETENTION SECURE")
             /\ primary_box' = Some([title |-> PrimaryTitle(new), risk |-> new])
             /\ session_state'["churn_risk_score"] = Some(new)
             /\ draw_state' # None]_vars

\* The first prediction of a session came out high: the sidebar of that run
\* says standby and the primary box says high.
C24_Witness ==
    /\ evaluate_clicked
    /\ raw_pred # None
    /\ sidebar_status = "SYSTEM STANDBY"
    /\ primary_box # None
    /\ Val(primary_box).title = "HIGH CHURN PROBABILITY DETECTED"

\* C25: in every run, for each numeric field, the displayed current value
\* is the value the store holds after the slider was read, and the delta
\* shown next to it is the percentage against the baseline of the value the
\* store held before the read.  In the run that processes an edit of the
\* field the delta is therefore that of the previous value and differs
\* from the delta of the value displayed; on the first view both are those
\* of the default.
C25_DeltaFromValueBeforeRead ==
    [][now' # now
        => \A f \in NumericFeatures :
             \E before \in {IF Started THEN session_state[InputKey(f)]
                            ELSE GLOBAL_BASELINES[f]} :
             \E after \in {session_state'[InputKey(f)]} :
                /\ shown_metrics'[f].display = after
                /\ shown_metrics'[f].delta[2] * 2 * GLOBAL_BASELINES[f]
                     <= 2 * (before - GLOBAL_BASELINES[f]) * 1000 + GLOBAL_BASELINES[f]
                /\ (shown_metrics'[f].delta[2] + 1) * 2 * GLOBAL_BASELINES[f]
                     > 2 * (before - GLOBAL_BASELINES[f]) * 1000 + GLOBAL_BASELINES[f]
                /\ after # before
                     => shown_metrics'[f].delta # DeltaStr(after, GLOBAL_BASELINES[f])]_vars

\* The age slider was moved from the baseline 35 to 90: the metric shows 90
\* with a delta of +0.0%.
C25_Witness ==
    /\ shown_metrics # <<>>
    /\ session_state["input_Age"] = 90
    /\ shown_metrics["Age"].display = 90
    /\ shown_metrics["Age"].delta[2] = 0

\* The codes of the run's vector are those of the loaded encoder
CodesFromEncoder ==
    /\ GenderLookup # None /\ payload[2] = Val(GenderLookup)
    /\ SubLookup # None /\ payload[5] = Val(SubLookup)

\* The codes of the run's vector are those of the manual table
CodesFromManualTable ==
    /\ payload[2] = CASE session_state["input_Gender"] = "Female" -> 0
                      [] session_state["input_Gender"] = "Male" -> 1
                      [] session_state["input_Gender"] = "Other" -> 2
    /\ payload[5] = CASE session_state["input_Subscription Type"] = "Basic" -> 0
                      [] session_state["input_Subscription Type"] = "Premium" -> 1
                      [] session_state["input_Subscription Type"] = "Standard" -> 2

\* C26: the two categorical codes of a run's vector come from one source:
\* both are the loaded encoder's codes or both are the manual table's
\* (Female 0, Male 1, Other 2; Basic 0, Premium 1, Standard 2).  When the
\* encoder's lookup succeeds for the gender and fails for the subscription
\* tier, the vector carries the manual-table code of the gender, not the
\* one the encoder had given.
C26_CodesFromOneSource ==
    Ran =>
        /\ CodesFromEncoder \/ CodesFromManualTable
        /\ (GenderLookup # None /\ SubLookup = None) => CodesFromManualTable
        /\ (encoder = None \/ GenderLookup = None) => CodesFromManualTable

\* An encoder with a gender column only gives Other the code 1; its
\* subscription lookup fails and the vector carries the manual code 2.
C26_Witness ==
    /\ Ran
    /\ encoder = Some(GenderOnlyDictEncoder)
    /\ session_state["input_Gender"] = "Other"
    /\ GenderLookup = Some(1)
    /\ SubLookup = None
    /\ payload[2] = 2

====
